---- MODULE Spec2Model ----
(***************************************************************************)
(* Model of .github/scripts/generate_appcast.py: the release fetch, the    *)
(* asset selector, the markdown renderer, the date formatter, the feed     *)
(* assembler and main.                                                     *)
(*                                                                         *)
(* Text is a sequence of one-character strings.  A tag that a substitution *)
(* pass inserts ("<h1>", "<em>", ...) is one element of the sequence: no   *)
(* pattern of the program can match a part of such a tag, since the tags   *)
(* hold none of the characters # * _ [ ] ( ) and no backquote or newline,  *)
(* a tag is no word character and no whitespace, and the line patterns are *)
(* anchored at the start of a line, where a tag starts with "<".           *)
(***************************************************************************)
EXTENDS Integers, Sequences, FiniteSets, TLC

VARIABLES
    \* ---- main / generate_appcast_xml ----
    pc,            \* position of main
    upstream,      \* what the releases endpoint will answer: <<list of releases>>, or an error
    releases,      \* the list fetch_github_releases returned
    idx,           \* position of the for loop of line 137 (the next release to look at)
    xml_lines,     \* the document being assembled, a list of lines
    items_added,   \* the counter of line 136
    selected,      \* index of the release the loop got past line 146 with (0: none yet)
    pub_date,      \* the argument handed to format_rfc822_date: <<>> before the call
    stderr,        \* diagnostics printed so far
    stdout,        \* messages printed so far
    file,          \* the output file: <<>> while not opened, else <<the text written>>
    exit_code,     \* <<>> while running, else <<status>>
    \* ---- find_dmg_asset on its own ----
    as_pc, assets_in, dmg_out,
    \* ---- markdown_to_html, pass by pass ----
    md_pc, md_in, html, lines, ln, in_ul, in_ol, result, md_out

mainVars == <<pc, upstream, releases, idx, xml_lines, items_added, selected, pub_date,
              stderr, stdout, file, exit_code>>
assetVars == <<as_pc, assets_in, dmg_out>>
mdVars == <<md_pc, md_in, html, lines, ln, in_ul, in_ol, result, md_out>>
vars == <<mainVars, assetVars, mdVars>>

(***************************************************************************)
(* Bounds of the model.                                                    *)
(***************************************************************************)
MaxReleases == 2
MaxAssets == 3
MaxLines == 3

(***************************************************************************)
(* Strings.                                                                *)
(***************************************************************************)
NL == "\n"
\* the backquote character (a TLA+ string cannot hold one)
BT == "BACKQUOTE"
\* The character classes, over the characters the inputs below are made of.
Whitespace == {" ", "\t", "\n", "\r"}
Digits == {"0", "1", "2"}
WordChars == Digits \cup {"a", "b", "c", "h", "x", "v", "_"}

Drop(s, n) == IF n >= Len(s) THEN <<>> ELSE SubSeq(s, n + 1, Len(s))
Take(s, n) == IF n >= Len(s) THEN s ELSE SubSeq(s, 1, n)

\* s[i:] starts with p  (i is 1-based)
MatchAt(s, p, i) ==
    /\ i >= 1
    /\ i + Len(p) - 1 <= Len(s)
    /\ \A j \in 1..Len(p) : s[i + j - 1] = p[j]

\* str.startswith, str.endswith, the `in` operator on strings
StartsWith(s, p) == MatchAt(s, p, 1)
EndsWith(s, p) == MatchAt(s, p, Len(s) - Len(p) + 1)
Contains(s, p) == \E i \in 1..(Len(s) + 1) : MatchAt(s, p, i)

\* str.strip() / str.lstrip(chars) / str.rstrip()
RECURSIVE LStripChars(_, _)
LStripChars(s, chars) ==
    IF s # <<>> /\ Head(s) \in chars THEN LStripChars(Tail(s), chars) ELSE s

RECURSIVE RStripChars(_, _)
RStripChars(s, chars) ==
    IF s # <<>> /\ s[Len(s)] \in chars THEN RStripChars(Take(s, Len(s) - 1), chars) ELSE s

Strip(s) == RStripChars(LStripChars(s, Whitespace), Whitespace)

\* str.split(sep) for a one-character sep: always at least one piece
RECURSIVE SplitFrom(_, _, _)
SplitFrom(s, sep, cur) ==
    IF s = <<>> THEN <<cur>>
    ELSE IF Head(s) = sep THEN <<cur>> \o SplitFrom(Tail(s), sep, <<>>)
    ELSE SplitFrom(Tail(s), sep, Append(cur, Head(s)))

Split(s, sep) == SplitFrom(s, sep, <<>>)

\* sep.join(parts)
RECURSIVE Join(_, _)
Join(parts, sep) ==
    IF parts = <<>> THEN <<>>
    ELSE IF Len(parts) = 1 THEN parts[1]
    ELSE parts[1] \o <<sep>> \o Join(Tail(parts), sep)

Min(S) == CHOOSE x \in S : \A y \in S : x <= y

\* no newline in s[i .. j]
NoNewline(s, i, j) == \A k \in i..j : s[k] # NL

(***************************************************************************)
(* markdown_to_html: the substitution passes (lines 42-59).                *)
(***************************************************************************)

\* One line under a header substitution (MULTILINE): the dot stops at a
\* newline and the dollar matches only at the end of a line, so the pattern
\* rewrites, line by line, each line that starts with the hashes and a space.
HeaderLine(line, prefix, open, close) ==
    IF StartsWith(line, prefix)
    THEN <<open>> \o Drop(line, Len(prefix)) \o <<close>>
    ELSE line

RECURSIVE HeaderLines(_, _, _, _)
HeaderLines(ls, prefix, open, close) ==
    IF ls = <<>> THEN <<>>
    ELSE <<HeaderLine(Head(ls), prefix, open, close)>>
            \o HeaderLines(Tail(ls), prefix, open, close)

HeaderPass(text, prefix, open, close) ==
    Join(HeaderLines(Split(text, NL), prefix, open, close), NL)

\* lines 43-45
Headers(text) ==
    LET t3 == HeaderPass(text, <<"#", "#", "#", " ">>, "<h3>", "</h3>")
        t2 == HeaderPass(t3, <<"#", "#", " ">>, "<h2>", "</h2>")
    IN  HeaderPass(t2, <<"#", " ">>, "<h1>", "</h1>")

\* The lengths k >= 1 of a non-greedy group that starts at position g of s and is
\* followed by the literal close.
GroupLens(s, g, close) ==
    {k \in 1..(Len(s) - g + 1) : NoNewline(s, g, g + k - 1) /\ MatchAt(s, close, g + k)}

\* re.sub of: open, a non-greedy group of one or more characters other than
\* a newline, close; by: pre, the group, post.  From position i on: the leftmost
\* match, the shortest group, then on from the end of the match.
RECURSIVE SubDelimFrom(_, _, _, _, _, _)
SubDelimFrom(s, i, open, close, pre, post) ==
    IF i > Len(s) THEN <<>>
    ELSE LET g == i + Len(open)
             K == IF MatchAt(s, open, i) THEN GroupLens(s, g, close) ELSE {}
         IN  IF K # {}
             THEN LET k == Min(K)
                  IN  <<pre>> \o SubSeq(s, g, g + k - 1) \o <<post>>
                        \o SubDelimFrom(s, g + k + Len(close), open, close, pre, post)
             ELSE <<s[i]>> \o SubDelimFrom(s, i + 1, open, close, pre, post)

SubDelim(s, delim, pre, post) == SubDelimFrom(s, 1, delim, delim, pre, post)

\* lines 48-52
Emphasis(text) ==
    LET t1 == SubDelim(text, <<"*", "*", "*">>, "<strong><em>", "</em></strong>")
        t2 == SubDelim(t1, <<"*", "*">>, "<strong>", "</strong>")
        t3 == SubDelim(t2, <<"*">>, "<em>", "</em>")
        t4 == SubDelim(t3, <<"_", "_">>, "<strong>", "</strong>")
    IN  SubDelim(t4, <<"_">>, "<em>", "</em>")

\* line 55: [label](url) becomes an anchor, both groups non-greedy.
\* The label lengths k1 for which the rest of the pattern matches, and for a
\* label length the shortest url length.
LinkUrlLens(s, u) == GroupLens(s, u, <<")">>)
LinkLabelLens(s, g) ==
    {k \in GroupLens(s, g, <<"]", "(">>) : LinkUrlLens(s, g + k + 2) # {}}

RECURSIVE LinksFrom(_, _)
LinksFrom(s, i) ==
    IF i > Len(s) THEN <<>>
    ELSE LET g == i + 1
             K == IF s[i] = "[" THEN LinkLabelLens(s, g) ELSE {}
         IN  IF K # {}
             THEN LET k1 == Min(K)
                      u == g + k1 + 2
                      k2 == Min(LinkUrlLens(s, u))
                  IN  <<"<a href=\"">> \o SubSeq(s, u, u + k2 - 1) \o <<"\">">>
                        \o SubSeq(s, g, g + k1 - 1) \o <<"</a>">>
                        \o LinksFrom(s, u + k2 + 1)
             ELSE <<s[i]>> \o LinksFrom(s, i + 1)

Links(text) == LinksFrom(text, 1)

\* line 58: three backticks, word characters, a newline, a non-greedy
\* interior that may span lines (DOTALL), a newline and three backticks.
Fence == <<BT, BT, BT>>

\* the length of the longest run of word characters from position i
RECURSIVE WordRun(_, _)
WordRun(s, i) ==
    IF i <= Len(s) /\ s[i] \in WordChars THEN 1 + WordRun(s, i + 1) ELSE 0

\* lengths k >= 0 of the interior starting at position g
InteriorLens(s, g) ==
    {k \in 0..(Len(s) - g + 1) : MatchAt(s, <<NL>> \o Fence, g + k)}

RECURSIVE CodeBlocksFrom(_, _)
CodeBlocksFrom(s, i) ==
    IF i > Len(s) THEN <<>>
    ELSE LET w == i + 3 + WordRun(s, i + 3)     \* where the "\n" must be
             g == w + 1
             K == IF MatchAt(s, Fence, i) /\ MatchAt(s, <<NL>>, w)
                  THEN InteriorLens(s, g) ELSE {}
         IN  IF K # {}
             THEN LET k == Min(K)
                  IN  <<"<pre><code>">> \o SubSeq(s, g, g + k - 1) \o <<"</code></pre>">>
                        \o CodeBlocksFrom(s, g + k + 4)
             ELSE <<s[i]>> \o CodeBlocksFrom(s, i + 1)

\* lines 58-59
Code(text) == SubDelim(CodeBlocksFrom(text, 1), <<BT>>, "<code>", "</code>")

(***************************************************************************)
(* markdown_to_html: the list loop (lines 62-96).                          *)
(***************************************************************************)

\* line 69: the line starts with one of * - + and then a space
IsBullet(line) == Len(line) >= 2 /\ line[1] \in {"*", "-", "+"} /\ line[2] = " "

RECURSIVE DigitRun(_, _)
DigitRun(s, i) ==
    IF i <= Len(s) /\ s[i] \in Digits THEN 1 + DigitRun(s, i + 1) ELSE 0

\* line 75: the line starts with one or more digits, a period and a space
IsNumbered(line) ==
    DigitRun(line, 1) >= 1 /\ MatchAt(line, <<".", " ">>, DigitRun(line, 1) + 1)

\* line 79: that prefix removed, then str.strip()
CleanedLine(line) == Strip(Drop(line, DigitRun(line, 1) + 2))

UlOpen == <<"<ul>">>
UlClose == <<"</ul>">>
OlOpen == <<"<ol>">>
OlClose == <<"</ol>">>
Li(s) == <<"<li>">> \o s \o <<"</li>">>
Para(s) == <<"<p>">> \o s \o <<"</p>">>

\* The body of the for loop (lines 67-89) on the loop state st = [ul, ol, res].
ListStep(st, line) ==
    IF IsBullet(line)
    THEN [ul |-> TRUE, ol |-> st.ol,
          res |-> st.res \o (IF st.ul THEN <<>> ELSE <<UlOpen>>)
                         \o <<Li(Strip(Drop(line, 2)))>>]
    ELSE IF IsNumbered(line)
    THEN [ul |-> st.ul, ol |-> TRUE,
          res |-> st.res \o (IF st.ol THEN <<>> ELSE <<OlOpen>>)
                         \o <<Li(CleanedLine(line))>>]
    ELSE [ul |-> FALSE, ol |-> FALSE,
          res |-> st.res \o (IF st.ul THEN <<UlClose>> ELSE <<>>)
                         \o (IF st.ol THEN <<OlClose>> ELSE <<>>)
                         \o (IF Strip(line) # <<>> THEN <<Para(line)>> ELSE <<>>)]

\* lines 91-94
CloseLists(st) ==
    st.res \o (IF st.ul THEN <<UlClose>> ELSE <<>>)
           \o (IF st.ol THEN <<OlClose>> ELSE <<>>)

RECURSIVE ListLoop(_, _)
ListLoop(st, ls) == IF ls = <<>> THEN st ELSE ListLoop(ListStep(st, Head(ls)), Tail(ls))

\* lines 38-96
markdown_to_html(markdown) ==
    LET h == Code(Links(Emphasis(Headers(markdown))))
        st == ListLoop([ul |-> FALSE, ol |-> FALSE, res |-> <<>>], Split(h, NL))
    IN  Join(CloseLists(st), NL)

(***************************************************************************)
(* Inputs of the renderer: texts of up to MaxLines lines taken from a set  *)
(* of line forms (bullets, numbered lines, headers, emphasis, fences, a    *)
(* link, blank and whitespace-only lines, plain text).                     *)
(***************************************************************************)
LineForms ==
    { <<>>,
      <<" ">>,
      <<"x">>,
      <<"-", " ", "a">>,
      <<"*", " ", "b">>,
      <<"1", ".", " ", "c">>,
      <<"#", " ", "h">>,
      <<"*", "x", "*">>,
      <<"_", "x", "_">>,
      <<BT, BT, BT>>,
      <<BT, BT, BT, "a">>,
      <<"[", "a", "]", "(", "b", ")">> }

RECURSIVE LineSeqs(_)
LineSeqs(n) ==
    IF n = 0 THEN {<<>>}
    ELSE LineSeqs(n - 1) \cup {Append(s, l) : s \in LineSeqs(n - 1), l \in LineForms}

Texts == {Join(ls, NL) : ls \in LineSeqs(MaxLines)}

(***************************************************************************)
(* The parts of the state a specification does not use stay as they are.   *)
(***************************************************************************)
MainIdle ==
    /\ pc = "idle" /\ upstream = <<>> /\ releases = <<>> /\ idx = 0
    /\ xml_lines = <<>> /\ items_added = 0 /\ selected = 0 /\ pub_date = <<>>
    /\ stderr = <<>> /\ stdout = <<>> /\ file = <<>> /\ exit_code = <<>>

AssetIdle == as_pc = "idle" /\ assets_in = <<>> /\ dmg_out = <<>>

MdIdle ==
    /\ md_pc = "idle" /\ md_in = <<>> /\ html = <<>> /\ lines = <<>> /\ ln = 0
    /\ in_ul = FALSE /\ in_ol = FALSE /\ result = <<>> /\ md_out = <<>>

(***************************************************************************)
(* markdown_to_html as a state machine: one step per group of passes and   *)
(* one step per iteration of the list loop.                                *)
(***************************************************************************)
MdInit ==
    /\ md_in \in Texts
    /\ md_pc = "headers"
    /\ html = md_in                      \* line 40
    /\ lines = <<>> /\ ln = 0
    /\ in_ul = FALSE /\ in_ol = FALSE
    /\ result = <<>> /\ md_out = <<>>
    /\ MainIdle /\ AssetIdle

MdHeaders ==
    /\ md_pc = "headers"
    /\ html' = Headers(html)
    /\ md_pc' = "emphasis"
    /\ UNCHANGED <<md_in, lines, ln, in_ul, in_ol, result, md_out, mainVars, assetVars>>

MdEmphasis ==
    /\ md_pc = "emphasis"
    /\ html' = Emphasis(html)
    /\ md_pc' = "links"
    /\ UNCHANGED <<md_in, lines, ln, in_ul, in_ol, result, md_out, mainVars, assetVars>>

MdLinks ==
    /\ md_pc = "links"
    /\ html' = Links(html)
    /\ md_pc' = "code"
    /\ UNCHANGED <<md_in, lines, ln, in_ul, in_ol, result, md_out, mainVars, assetVars>>

\* lines 58-65: the code passes, then the split and the loop's initial state
MdCode ==
    /\ md_pc = "code"
    /\ html' = Code(html)
    /\ lines' = Split(html', NL)
    /\ ln' = 1
    /\ in_ul' = FALSE /\ in_ol' = FALSE /\ result' = <<>>
    /\ md_pc' = "loop"
    /\ UNCHANGED <<md_in, md_out, mainVars, assetVars>>

\* one iteration of the for loop of line 67
MdLine ==
    /\ md_pc = "loop"
    /\ ln <= Len(lines)
    /\ LET st == ListStep([ul |-> in_ul, ol |-> in_ol, res |-> result], lines[ln])
       IN  in_ul' = st.ul /\ in_ol' = st.ol /\ result' = st.res
    /\ ln' = ln + 1
    /\ UNCHANGED <<md_pc, md_in, html, lines, md_out, mainVars, assetVars>>

\* lines 91-96
MdReturn ==
    /\ md_pc = "loop"
    /\ ln > Len(lines)
    /\ result' = CloseLists([ul |-> in_ul, ol |-> in_ol, res |-> result])
    /\ md_out' = Join(result', NL)
    /\ md_pc' = "done"
    /\ UNCHANGED <<md_in, html, lines, ln, in_ul, in_ol, mainVars, assetVars>>

MdNext == MdHeaders \/ MdEmphasis \/ MdLinks \/ MdCode \/ MdLine \/ MdReturn

SpecMd == MdInit /\ [][MdNext]_vars

(***************************************************************************)
(* find_dmg_asset (lines 98-110).  An asset is a record; the result is     *)
(* <<>> for None and <<asset>> otherwise.                                  *)
(***************************************************************************)
XKeyDmg == <<"X", "K", "e", "y", ".", "d", "m", "g">>
DotDmg == <<".", "d", "m", "g">>
IM == <<"I", "M">>

IsExact(asset) == asset.name = XKeyDmg
IsFallback(asset) == EndsWith(asset.name, DotDmg) /\ ~Contains(asset.name, IM)

\* a variant that takes the first ".dmg" asset whatever its name
find_dmg_asset_first_dmg(assets) ==
    LET dmg == {i \in 1..Len(assets) : EndsWith(assets[i].name, DotDmg)}
    IN  IF dmg # {} THEN <<assets[Min(dmg)]>> ELSE <<>>

find_dmg_asset(assets) ==
    LET exact == {i \in 1..Len(assets) : IsExact(assets[i])}
        fallback == {i \in 1..Len(assets) : IsFallback(assets[i])}
    IN  IF exact # {} THEN <<assets[Min(exact)]>>
        ELSE IF fallback # {} THEN <<assets[Min(fallback)]>>
        ELSE <<>>

AssetNames ==
    { XKeyDmg,
      <<"X", "K", "e", "y", "I", "M", ".", "d", "m", "g">>,
      <<"b", ".", "d", "m", "g">>,
      <<"b", ".", "z", "i", "p">>,
      <<"I", "M">> }

AssetSizes == {1000, 2000}

Asset(name, size) ==
    [name |-> name, size |-> size,
     browser_download_url |-> <<"https://github.com/o/r/releases/download/">> \o name]

Assets == {Asset(n, z) : n \in AssetNames, z \in AssetSizes}

RECURSIVE AssetLists(_)
AssetLists(n) ==
    IF n = 0 THEN {<<>>}
    ELSE AssetLists(n - 1) \cup {Append(s, a) : s \in AssetLists(n - 1), a \in Assets}

AssetInit ==
    /\ assets_in \in AssetLists(MaxAssets)
    /\ as_pc = "call"
    /\ dmg_out = <<>>
    /\ MainIdle /\ MdIdle

FindDmgAsset ==
    /\ as_pc = "call"
    /\ dmg_out' = find_dmg_asset(assets_in)
    /\ as_pc' = "returned"
    /\ UNCHANGED <<assets_in, mainVars, mdVars>>

AssetNext == FindDmgAsset

SpecAsset == AssetInit /\ [][AssetNext]_vars

(***************************************************************************)
(* format_rfc822_date (lines 112-116).  A timestamp is one atom; the       *)
(* result is <<>> when the function raises and <<text>> otherwise.  None   *)
(* has no replace method and an ill-formed text is refused by              *)
(* datetime.fromisoformat: both raise.                                     *)
(***************************************************************************)
Absent == "@absent"          \* the record has no such key
Null == "@null"              \* the key is there with a null value (None)
PublishedTs == "2024-01-15T10:00:00Z"
CreatedTs == "2024-01-10T08:30:00Z"
MalformedTs == "not-a-date"

format_rfc822_date(iso_date) ==
    CASE iso_date = PublishedTs -> <<"Mon, 15 Jan 2024 10:00:00 +0000">>
      [] iso_date = CreatedTs -> <<"Wed, 10 Jan 2024 08:30:00 +0000">>
      [] OTHER -> <<>>

(***************************************************************************)
(* generate_appcast_xml (lines 117-198): the parts of one iteration.       *)
(* A line of the document is a sequence of text pieces.                    *)
(***************************************************************************)
\* line 202: the default of GITHUB_REPOSITORY
Repo == <<"xmannv", "/", "xkey">>

\* lines 121-133
XmlHeader(repo) ==
    LET repo_owner == Split(repo, "/")[1]
        repo_name == Split(repo, "/")[2]
    IN  << <<"<?xml version=\"1.0\" encoding=\"utf-8\"?>">>,
           <<"<rss version=\"2.0\" xmlns:sparkle=\"http://www.andymatuschak.org/xml-namespaces/sparkle\" xmlns:dc=\"http://purl.org/dc/elements/1.1/\">">>,
           <<"  <channel>">>,
           <<"    <title>XKey Updates</title>">>,
           <<"    <link>https://">> \o repo_owner \o <<".github.io/">> \o repo_name
                \o <<"/appcast.xml</link>">>,
           <<"    <description>XKey - Vietnamese Input Method for macOS</description>">>,
           <<"    <language>vi</language>">> >>

\* lines 193-196
XmlFooter == << <<"  </channel>">>, <<"</rss>">> >>

\* line 139, with the draft test alone
SkippedDraftOnly(release) == release.draft

\* line 139
Skipped(release) == release.draft \/ release.prerelease

\* line 149: str.lstrip('v') removes every leading "v"
Version(tag_name) == LStripChars(tag_name, {"v"})

\* line 158 (the text is "Xem chi tiet tren GitHub" with its diacritics)
NotesLink(release_url) ==
    <<NL, "<p><a href=\"">> \o release_url \o <<"\">Xem chi tiet tren GitHub</a></p>">>

\* lines 152-158 with the test of line 157 made on the body
ReleaseNotesHtmlTestsBody(release) ==
    LET release_notes == release.body
        truthy == release_notes # <<>> /\ release_notes[1] # <<>>
        release_notes_html == IF truthy THEN markdown_to_html(release_notes[1]) ELSE <<>>
    IN  IF truthy
        THEN release_notes_html \o NotesLink(release.html_url)
        ELSE release_notes_html

\* lines 152-158.  body is <<>> for None and <<text>> otherwise; None and the
\* empty text are the falsy values.
ReleaseNotesHtml(release) ==
    LET release_notes == release.body
        truthy == release_notes # <<>> /\ release_notes[1] # <<>>
        release_notes_html == IF truthy THEN markdown_to_html(release_notes[1]) ELSE <<>>
    IN  IF release_notes_html # <<>>
        THEN release_notes_html \o NotesLink(release.html_url)
        ELSE release_notes_html

\* line 161: dict.get falls back only when the key is missing
PubDate(release) ==
    IF release.published_at # Absent THEN release.published_at
    ELSE IF release.created_at # Absent THEN release.created_at
    ELSE Null

\* lines 165-183
ItemLines(release, dmg_asset, formatted_date) ==
    LET version == Version(release.tag_name)
    IN  << <<"    <item>">>,
           <<"      <title>Version ">> \o version \o <<"</title>">>,
           <<"      <link>">> \o release.html_url \o <<"</link>">>,
           <<"      <sparkle:version>">> \o version \o <<"</sparkle:version>">>,
           <<"      <sparkle:shortVersionString>">> \o version
                \o <<"</sparkle:shortVersionString>">>,
           <<"      <description><![CDATA[">>,
           <<"        ">> \o ReleaseNotesHtml(release),
           <<"      ]]></description>">>,
           <<"      <pubDate>", formatted_date, "</pubDate>">>,
           <<"      <sparkle:minimumSystemVersion>12.0</sparkle:minimumSystemVersion>">>,
           <<"      <enclosure ">>,
           <<"        url=\"">> \o dmg_asset.browser_download_url \o <<"\" ">>,
           <<"        sparkle:version=\"">> \o version \o <<"\" ">>,
           <<"        sparkle:shortVersionString=\"">> \o version \o <<"\" ">>,
           <<"        length=\"", ToString(dmg_asset.size), "\" ">>,
           <<"        type=\"application/octet-stream\" />">>,
           <<"    </item>">> >>

(***************************************************************************)
(* The releases the endpoint may answer with.                              *)
(***************************************************************************)
Release(tag_name, body, draft, prerelease, published_at, created_at, assets) ==
    [tag_name |-> tag_name, body |-> body, draft |-> draft, prerelease |-> prerelease,
     published_at |-> published_at, created_at |-> created_at,
     html_url |-> <<"https://github.com/xmannv/xkey/releases/tag/">> \o tag_name,
     assets |-> assets]

XKeyAsset == Asset(XKeyDmg, 1000)
IMAsset == Asset(<<"X", "K", "e", "y", "I", "M", ".", "d", "m", "g">>, 2000)
OtherDmgAsset == Asset(<<"b", ".", "d", "m", "g">>, 2000)

ReleaseAssetLists == { <<>>, <<XKeyAsset>>, <<IMAsset>>, <<IMAsset, OtherDmgAsset>> }

ReleaseTags == { <<"v", "1">>, <<"1">>, <<"v", "v", "1">>, <<"1", "v">> }

ReleaseBodies ==
    { <<>>, << <<>> >>, << <<" ">> >>, << <<" ", NL>> >>, << <<"x">> >>,
      << <<"-", " ", "a">> >>, << <<"#", " ", "h", NL, NL, "*", "x", "*">> >> }

BaseTag == <<"v", "1">>
BaseBody == << <<"x">> >>

\* Releases that differ in the flags and the assets, in the tag, in the notes,
\* or in the timestamps.
Releases ==
    {Release(BaseTag, BaseBody, d, p, PublishedTs, CreatedTs, a) :
        d \in BOOLEAN, p \in BOOLEAN, a \in ReleaseAssetLists}
    \cup {Release(t, BaseBody, FALSE, FALSE, PublishedTs, CreatedTs, <<XKeyAsset>>) :
        t \in ReleaseTags}
    \cup {Release(BaseTag, b, FALSE, FALSE, PublishedTs, CreatedTs, <<XKeyAsset>>) :
        b \in ReleaseBodies}
    \cup {Release(BaseTag, BaseBody, FALSE, FALSE, pt, ct, <<XKeyAsset>>) :
        pt \in {Absent, Null, PublishedTs, MalformedTs}, ct \in {Absent, CreatedTs}}

RECURSIVE ReleaseLists(_)
ReleaseLists(n) ==
    IF n = 0 THEN {<<>>}
    ELSE ReleaseLists(n - 1) \cup {Append(s, r) : s \in ReleaseLists(n - 1), r \in Releases}

\* What the endpoint answers: a list of releases, an HTTP error status, or a
\* failure that is no HTTPError (no route, no name resolution).
Responses ==
    {[status |-> "ok", body |-> rs] : rs \in ReleaseLists(MaxReleases)}
    \cup {[status |-> "http_error", body |-> <<>>], [status |-> "url_error", body |-> <<>>]}

(***************************************************************************)
(* main (lines 200-214) with fetch_github_releases (lines 18-36) and       *)
(* generate_appcast_xml (lines 117-198), one action per step.              *)
(***************************************************************************)
Init ==
    /\ pc = "start"
    /\ upstream \in Responses
    /\ releases = <<>> /\ idx = 0
    /\ xml_lines = <<>> /\ items_added = 0 /\ selected = 0 /\ pub_date = <<>>
    /\ stderr = <<>> /\ stdout = <<>> /\ file = <<>> /\ exit_code = <<>>
    /\ AssetIdle /\ MdIdle

\* a main that opens the output file before it generates the document
MainStartOpensFile ==
    /\ pc = "start"
    /\ pc' = "fetch"
    /\ file' = << <<>> >>
    /\ UNCHANGED <<upstream, releases, idx, xml_lines, items_added, selected, pub_date,
                   stderr, stdout, exit_code, assetVars, mdVars>>

\* lines 202-206: read the environment, call generate_appcast_xml
MainStart ==
    /\ pc = "start"
    /\ pc' = "fetch"
    /\ UNCHANGED <<upstream, releases, idx, xml_lines, items_added, selected, pub_date,
                   stderr, stdout, file, exit_code, assetVars, mdVars>>

\* lines 119-136: the fetch returns the releases; the header; the counter
FetchOk ==
    /\ pc = "fetch"
    /\ upstream.status = "ok"
    /\ releases' = upstream.body
    /\ xml_lines' = XmlHeader(Repo)
    /\ items_added' = 0
    /\ idx' = 1
    /\ pc' = "loop"
    /\ UNCHANGED <<upstream, selected, pub_date, stderr, stdout, file, exit_code,
                   assetVars, mdVars>>

\* lines 34-36: HTTPError is caught, reported, and the process exits with 1
FetchHttpError ==
    /\ pc = "fetch"
    /\ upstream.status = "http_error"
    /\ stderr' = Append(stderr, <<"Error fetching releases: HTTPError">>)
    /\ exit_code' = <<1>>
    /\ pc' = "exited"
    /\ UNCHANGED <<upstream, releases, idx, xml_lines, items_added, selected, pub_date,
                   stdout, file, assetVars, mdVars>>

\* line 32: any other failure of urlopen is not caught and ends the process
FetchUncaught ==
    /\ pc = "fetch"
    /\ upstream.status = "url_error"
    /\ stderr' = Append(stderr, <<"Traceback: URLError">>)
    /\ exit_code' = <<1>>
    /\ pc' = "crashed"
    /\ UNCHANGED <<upstream, releases, idx, xml_lines, items_added, selected, pub_date,
                   stdout, file, assetVars, mdVars>>

\* lines 139-140
SkipRelease ==
    /\ pc = "loop"
    /\ idx <= Len(releases)
    /\ Skipped(releases[idx])
    /\ idx' = idx + 1
    /\ UNCHANGED <<pc, upstream, releases, xml_lines, items_added, selected, pub_date,
                   stderr, stdout, file, exit_code, assetVars, mdVars>>

\* lines 143-146
WarnNoDmg ==
    /\ pc = "loop"
    /\ idx <= Len(releases)
    /\ ~Skipped(releases[idx])
    /\ find_dmg_asset(releases[idx].assets) = <<>>
    /\ stderr' = Append(stderr, <<"Warning: No DMG found for release ">>
                                    \o releases[idx].tag_name)
    /\ idx' = idx + 1
    /\ UNCHANGED <<pc, upstream, releases, xml_lines, items_added, selected, pub_date,
                   stdout, file, exit_code, assetVars, mdVars>>

\* lines 148-187 without the break: the loop goes on to the next release
AddItemNoBreak ==
    /\ pc = "loop"
    /\ idx <= Len(releases)
    /\ ~Skipped(releases[idx])
    /\ find_dmg_asset(releases[idx].assets) # <<>>
    /\ format_rfc822_date(PubDate(releases[idx])) # <<>>
    /\ selected' = idx
    /\ pub_date' = <<PubDate(releases[idx])>>
    /\ xml_lines' = xml_lines \o ItemLines(releases[idx],
                                           find_dmg_asset(releases[idx].assets)[1],
                                           format_rfc822_date(PubDate(releases[idx]))[1])
    /\ items_added' = items_added + 1
    /\ idx' = idx + 1
    /\ UNCHANGED <<pc, upstream, releases, stderr, stdout, file, exit_code,
                   assetVars, mdVars>>

\* lines 148-187: the entry is built and the loop left
AddItem ==
    /\ pc = "loop"
    /\ idx <= Len(releases)
    /\ ~Skipped(releases[idx])
    /\ find_dmg_asset(releases[idx].assets) # <<>>
    /\ format_rfc822_date(PubDate(releases[idx])) # <<>>
    /\ selected' = idx
    /\ pub_date' = <<PubDate(releases[idx])>>
    /\ xml_lines' = xml_lines \o ItemLines(releases[idx],
                                           find_dmg_asset(releases[idx].assets)[1],
                                           format_rfc822_date(PubDate(releases[idx]))[1])
    /\ items_added' = items_added + 1
    /\ pc' = "close"
    /\ UNCHANGED <<upstream, releases, idx, stderr, stdout, file, exit_code,
                   assetVars, mdVars>>

\* lines 148-162: format_rfc822_date raises, nothing catches it
DateRaises ==
    /\ pc = "loop"
    /\ idx <= Len(releases)
    /\ ~Skipped(releases[idx])
    /\ find_dmg_asset(releases[idx].assets) # <<>>
    /\ format_rfc822_date(PubDate(releases[idx])) = <<>>
    /\ selected' = idx
    /\ pub_date' = <<PubDate(releases[idx])>>
    /\ stderr' = Append(stderr, <<"Traceback: format_rfc822_date">>)
    /\ exit_code' = <<1>>
    /\ pc' = "crashed"
    /\ UNCHANGED <<upstream, releases, idx, xml_lines, items_added, stdout, file,
                   assetVars, mdVars>>

\* line 137: the list is exhausted
LoopEnd ==
    /\ pc = "loop"
    /\ idx > Len(releases)
    /\ pc' = "close"
    /\ UNCHANGED <<upstream, releases, idx, xml_lines, items_added, selected, pub_date,
                   stderr, stdout, file, exit_code, assetVars, mdVars>>

\* lines 189-198 with an empty feed treated as a failure
CloseXmlFailsWhenEmpty ==
    /\ pc = "close"
    /\ IF items_added = 0
       THEN /\ stderr' = Append(stderr, <<"Warning: No valid releases found">>)
            /\ exit_code' = <<1>>
            /\ pc' = "exited"
            /\ UNCHANGED xml_lines
       ELSE /\ xml_lines' = xml_lines \o XmlFooter
            /\ pc' = "write"
            /\ UNCHANGED <<stderr, exit_code>>
    /\ UNCHANGED <<upstream, releases, idx, items_added, selected, pub_date, stdout, file,
                   assetVars, mdVars>>

\* lines 189-198
CloseXml ==
    /\ pc = "close"
    /\ stderr' = IF items_added = 0
                 THEN Append(stderr, <<"Warning: No valid releases found">>)
                 ELSE stderr
    /\ xml_lines' = xml_lines \o XmlFooter
    /\ pc' = "write"
    /\ UNCHANGED <<upstream, releases, idx, items_added, selected, pub_date, stdout, file,
                   exit_code, assetVars, mdVars>>

\* lines 198 and 209-211: the joined document is written
WriteFile ==
    /\ pc = "write"
    /\ file' = <<Join(xml_lines, NL)>>
    /\ pc' = "print"
    /\ UNCHANGED <<upstream, releases, idx, xml_lines, items_added, selected, pub_date,
                   stderr, stdout, exit_code, assetVars, mdVars>>

\* lines 213-214, then the process ends
PrintSuccess ==
    /\ pc = "print"
    /\ stdout' = stdout \o << <<"Generated appcast.xml">>, <<"Output: appcast.xml">> >>
    /\ exit_code' = <<0>>
    /\ pc' = "done"
    /\ UNCHANGED <<upstream, releases, idx, xml_lines, items_added, selected, pub_date,
                   stderr, file, assetVars, mdVars>>

Next ==
    \/ MainStart \/ FetchOk \/ FetchHttpError \/ FetchUncaught
    \/ SkipRelease \/ WarnNoDmg \/ AddItem \/ DateRaises \/ LoopEnd
    \/ CloseXml \/ WriteFile \/ PrintSuccess

Spec == Init /\ [][Next]_vars

(***************************************************************************)
(* Properties.                                                             *)
(***************************************************************************)
ItemOpen == <<"    <item>">>
ItemCount(ls) == Cardinality({i \in 1..Len(ls) : ls[i] = ItemOpen})

HeaderLen == Len(XmlHeader(Repo))
\* the place in the document of the k-th line of the item
ItemLine(k) == xml_lines[HeaderLen + k]

HasQualifyingAsset(r) ==
    \E i \in 1..Len(r.assets) :
        \/ r.assets[i].name = XKeyDmg
        \/ EndsWith(r.assets[i].name, DotDmg) /\ ~Contains(r.assets[i].name, IM)

Qualifies(r) == ~r.draft /\ ~r.prerelease /\ HasQualifyingAsset(r)

QualifyingIndexes == {k \in 1..Len(releases) : Qualifies(releases[k])}

AfterLoop == pc \in {"close", "write", "print", "done"}

NoDmgWarnings ==
    {i \in 1..Len(stderr) : stderr[i][1] = "Warning: No DMG found for release "}

\* C1: the release the item is built from is neither a draft nor a
\* prerelease, wherever it stands in the list and whatever its assets.
C1_NeverDraftOrPrerelease ==
    /\ selected # 0 =>
          /\ ~releases[selected].draft
          /\ ~releases[selected].prerelease
    /\ ItemCount(xml_lines) > 0 =>
          /\ selected # 0
          /\ ItemLine(3) = <<"      <link>">> \o releases[selected].html_url \o <<"</link>">>

\* C1 witness: a draft that carries XKey.dmg stands first and the item is
\* built from the second release.
C1_Witness ==
    /\ pc = "done" /\ selected = 2 /\ ItemCount(xml_lines) = 1
    /\ releases[1].draft /\ HasQualifyingAsset(releases[1])

\* C2: the document holds at most one item; the item is built from the
\* first release in order that is no draft, no prerelease and has a
\* qualifying asset; each earlier release that is neither draft nor
\* prerelease and has no such asset got a warning; nothing after the
\* selected release is looked at.
C2_FirstQualifyingOnly ==
    /\ ItemCount(xml_lines) <= 1
    /\ ItemCount(xml_lines) = 1 =>
          /\ QualifyingIndexes # {}
          /\ selected = Min(QualifyingIndexes)
          /\ idx = selected
          /\ ItemLine(3) = <<"      <link>">> \o releases[selected].html_url \o <<"</link>">>
          /\ \E a \in {releases[selected].assets[i] : i \in 1..Len(releases[selected].assets)} :
                /\ ItemLine(12) = <<"        url=\"">> \o a.browser_download_url \o <<"\" ">>
                /\ ItemLine(15) = <<"        length=\"", ToString(a.size), "\" ">>
          /\ Cardinality(NoDmgWarnings) =
                Cardinality({j \in 1..(selected - 1) :
                                /\ ~releases[j].draft /\ ~releases[j].prerelease
                                /\ ~HasQualifyingAsset(releases[j])})
    /\ AfterLoop /\ ItemCount(xml_lines) = 0 => QualifyingIndexes = {}

\* C2 witness: the first release is public but has no qualifying asset, the
\* second one is selected.
C2_Witness ==
    /\ pc = "done" /\ selected = 2 /\ ItemCount(xml_lines) = 1
    /\ ~releases[1].draft /\ ~releases[1].prerelease /\ ~HasQualifyingAsset(releases[1])
    /\ Cardinality(NoDmgWarnings) = 1

InList(ls) == {ls[i] : i \in 1..Len(ls)}
IsDmgNotIM(a) == EndsWith(a.name, DotDmg) /\ ~Contains(a.name, IM)

\* C3: find_dmg_asset returns an asset named XKey.dmg whenever there is
\* one, even after other .dmg assets; else the first asset in order whose
\* name ends in .dmg and holds no IM; else None.  The fallback never returns
\* a name with IM, and the result is always an asset of the list.
C3_AssetSelection ==
    as_pc = "returned" =>
        /\ dmg_out # <<>> => dmg_out[1] \in InList(assets_in)
        /\ (\E a \in InList(assets_in) : a.name = XKeyDmg) =>
              dmg_out # <<>> /\ dmg_out[1].name = XKeyDmg
        /\ (\A a \in InList(assets_in) : a.name # XKeyDmg) =>
              /\ dmg_out # <<>> =>
                    \E i \in 1..Len(assets_in) :
                        /\ dmg_out[1] = assets_in[i]
                        /\ IsDmgNotIM(assets_in[i])
                        /\ \A j \in 1..(i - 1) : ~IsDmgNotIM(assets_in[j])
              /\ dmg_out = <<>> => \A a \in InList(assets_in) : ~IsDmgNotIM(a)

\* C3 witness: XKey.dmg is returned although another .dmg asset precedes it.
C3_Witness ==
    /\ as_pc = "returned"
    /\ Len(assets_in) >= 2
    /\ IsDmgNotIM(assets_in[1]) /\ assets_in[1].name # XKeyDmg
    /\ dmg_out # <<>> /\ dmg_out[1].name = XKeyDmg

\* the tag without one leading "v", if it has one
OneLeadingVRemoved(tag) == IF tag # <<>> /\ Head(tag) = "v" THEN Tail(tag) ELSE tag

\* C4: the version written into the item is the tag with at most one
\* leading "v" removed.
C4_VersionStripsOneV ==
    items_added = 1 =>
        ItemLine(4) = <<"      <sparkle:version>">>
                         \o OneLeadingVRemoved(releases[selected].tag_name)
                         \o <<"</sparkle:version>">>

\* C5: the file is written only once the whole document is assembled; a
\* run that the fetch or the date formatter ends leaves the file unopened
\* and exits non-zero; the success message comes only after the write.
C5_WriteAfterAssembly ==
    /\ file # <<>> =>
          /\ pc \in {"print", "done"}
          /\ file[1] = Join(xml_lines, NL)
          /\ SubSeq(xml_lines, 1, HeaderLen) = XmlHeader(Repo)
          /\ SubSeq(xml_lines, Len(xml_lines) - 1, Len(xml_lines)) = XmlFooter
    /\ pc \in {"exited", "crashed"} =>
          file = <<>> /\ exit_code = <<1>> /\ stdout = <<>>
    /\ stdout # <<>> => file # <<>> /\ pc = "done"

\* C5 witness: the date formatter raised on the malformed timestamp and the
\* run ended with the file unopened.
C5_Witness ==
    /\ pc = "crashed" /\ pub_date = <<MalformedTs>> /\ file = <<>>

EmptyFeed ==
    << <<"<?xml version=\"1.0\" encoding=\"utf-8\"?>">>,
       <<"<rss version=\"2.0\" xmlns:sparkle=\"http://www.andymatuschak.org/xml-namespaces/sparkle\" xmlns:dc=\"http://purl.org/dc/elements/1.1/\">">>,
       <<"  <channel>">>,
       <<"    <title>XKey Updates</title>">>,
       <<"    <link>https://", "xmannv", ".github.io/", "xkey", "/appcast.xml</link>">>,
       <<"    <description>XKey - Vietnamese Input Method for macOS</description>">>,
       <<"    <language>vi</language>">>,
       <<"  </channel>">>,
       <<"</rss>">> >>

NoneQualifies(rs) == \A k \in 1..Len(rs) : ~Qualifies(rs[k])

\* C6: when no release yields an entry the run does not fail: it warns
\* "No valid releases found" and the document is the channel header and
\* the closing tags, with no item.
C6_EmptyFeedStillWritten ==
    (upstream.status = "ok" /\ NoneQualifies(upstream.body)) =>
        /\ pc \notin {"exited", "crashed"}
        /\ exit_code \in {<<>>, <<0>>}
        /\ pc \in {"write", "print", "done"} =>
              /\ xml_lines = EmptyFeed
              /\ ItemCount(xml_lines) = 0
              /\ stderr # <<>>
              /\ stderr[Len(stderr)] = <<"Warning: No valid releases found">>
        /\ pc = "done" => file = <<Join(EmptyFeed, NL)>>

\* C6 witness: two releases, one a prerelease and one without a qualifying
\* asset, and the run ended with the empty feed written.
C6_Witness ==
    /\ pc = "done" /\ Len(releases) = 2 /\ NoneQualifies(releases)
    /\ releases[1].prerelease /\ ~releases[2].draft /\ ~releases[2].prerelease
    /\ items_added = 0 /\ file # <<>>

\* C7: format_rfc822_date is handed the published timestamp when the
\* release has one and the creation timestamp when it has none, a null
\* published_at included.
C7_PublishedElseCreated ==
    (selected # 0 /\ releases[selected].created_at # Absent) =>
        pub_date = << IF releases[selected].published_at \notin {Absent, Null}
                      THEN releases[selected].published_at
                      ELSE releases[selected].created_at >>

NotesLine == ItemLine(7)
HasNotesLink == EndsWith(NotesLine, NotesLink(releases[selected].html_url))
BodyNonEmpty(r) == r.body # <<>> /\ r.body[1] # <<>>
BodyHasVisibleChar(r) ==
    r.body # <<>> /\ \E i \in 1..Len(r.body[1]) : r.body[1][i] \notin Whitespace

\* C8 as stated: the link paragraph is appended exactly when the body is
\* non-empty, a body of blank or whitespace-only lines included.
C8_LinkIffBodyNonEmpty ==
    items_added = 1 => (HasNotesLink <=> BodyNonEmpty(releases[selected]))

\* C8 as amended: the link paragraph is appended exactly when the rendered
\* notes are non-empty, that is when the body holds a character that is not
\* whitespace; without it the notes line is empty.
C8_LinkIffRenderedNonEmpty ==
    items_added = 1 =>
        /\ HasNotesLink <=> BodyHasVisibleChar(releases[selected])
        /\ ~HasNotesLink => NotesLine = <<"        ">>

\* C8 witness: an item built from a release whose body is one space, with
\* no link paragraph.
C8_Witness ==
    /\ items_added = 1
    /\ releases[selected].body = << <<" ">> >>
    /\ ~HasNotesLink

\* The list loop as C9 describes it: a run is closed before any output of
\* the first line that is not part of it.
RunStep(st, line) ==
    IF IsBullet(line)
    THEN [ul |-> TRUE, ol |-> FALSE,
          res |-> st.res \o (IF st.ol THEN <<OlClose>> ELSE <<>>)
                         \o (IF st.ul THEN <<>> ELSE <<UlOpen>>)
                         \o <<Li(Strip(Drop(line, 2)))>>]
    ELSE IF IsNumbered(line)
    THEN [ul |-> FALSE, ol |-> TRUE,
          res |-> st.res \o (IF st.ul THEN <<UlClose>> ELSE <<>>)
                         \o (IF st.ol THEN <<>> ELSE <<OlOpen>>)
                         \o <<Li(CleanedLine(line))>>]
    ELSE [ul |-> FALSE, ol |-> FALSE,
          res |-> st.res \o (IF st.ul THEN <<UlClose>> ELSE <<>>)
                         \o (IF st.ol THEN <<OlClose>> ELSE <<>>)
                         \o (IF Strip(line) # <<>> THEN <<Para(line)>> ELSE <<>>)]

RECURSIVE RunLoop(_, _)
RunLoop(st, ls) == IF ls = <<>> THEN st ELSE RunLoop(RunStep(st, Head(ls)), Tail(ls))

RunsOutput(ls) == CloseLists(RunLoop([ul |-> FALSE, ol |-> FALSE, res |-> <<>>], ls))

\* C9: each maximal run of bullet lines is one <ul> block and each maximal
\* run of numbered lines one <ol> block, closed before the first line that
\* is not part of the run, so at most one list is open at any point.
C9_ListRunsClosedInOrder ==
    /\ ~(in_ul /\ in_ol)
    /\ md_pc = "done" => result = RunsOutput(lines)

IsOpeningFence(line) ==
    /\ StartsWith(line, Fence)
    /\ \A i \in 4..Len(line) : line[i] \in WordChars
IsClosingFence(line) == line = Fence

\* the first fenced block of the input lines: <<i, j>> with line i the first
\* opening fence, line j the first closing fence after at least one interior
\* line; {} when there is none
FirstFencedBlock(ls) ==
    LET opens == {i \in 1..Len(ls) : IsOpeningFence(ls[i])}
    IN  IF opens = {} THEN {}
        ELSE LET i == Min(opens)
                 closes == {j \in (i + 2)..Len(ls) : IsClosingFence(ls[j])}
             IN  IF closes = {} THEN {} ELSE {<<i, Min(closes)>>}

\* C10: the interior of a fenced block reaches the output unchanged between
\* <pre><code> and </code></pre>.
C10_FencedInteriorVerbatim ==
    md_pc = "done" =>
        \A b \in FirstFencedBlock(Split(md_in, NL)) :
            Contains(md_out,
                     <<"<pre><code>">>
                        \o Join(SubSeq(Split(md_in, NL), b[1] + 1, b[2] - 1), NL)
                        \o <<"</code></pre>">>)

====
